---- MODULE Spec2Model ----
(***************************************************************************)
(* QueueCLI: the job lifecycle engine.                                     *)
(*                                                                         *)
(* The store (src/storage/database.py) is a table of job records; every    *)
(* Storage method runs in its own session, so each method call is one      *)
(* atomic step and two calls of one handler are two steps.  A worker       *)
(* (src/workers/worker.py) loops: get_next_pending_job, then process_job,  *)
(* which writes "processing", runs the command and writes the outcome.     *)
(* The dlq retry command (src/cli/main.py) reads a job and then writes it. *)
(*                                                                         *)
(* Timestamps are integers read from one global clock `now`.  updated_at   *)
(* is an audit field that no operation reads; it is not carried.           *)
(***************************************************************************)
EXTENDS Integers, Sequences, FiniteSets, TLC

\* ---- bounds ----
MaxJobs == 2
NumWorkers == 2
MaxTime == 1
MaxRetriesBound == 2

\* ---- program constants ----
BaseDelay == 2
DefaultPriority == 0

JobIds == 1..MaxJobs
Workers == 1..NumWorkers

\* Python None for a timestamp / integer column, a string column, the output column
NoneT == -1
NoneS == "None"
NoneO == <<"None">>

JobState == {"pending", "processing", "completed", "failed", "dead"}

\* Shell commands the clients submit, and what running each one yields.
Commands == {"echo ' h'", "exit 1", "sleep 5"}
Priorities == {DefaultPriority, 5}
Whitespace == {" ", "\n", "\t"}

VARIABLES
    jobs,   \* the jobs table: job id -> record
    pc,     \* each worker thread's position in Worker.run / process_job
    cur,    \* each worker's `job`: the detached record get_next_pending_job returned
    now,    \* the clock
    cli,    \* the job id a running `dlq retry` has read as dead and is about to write (0: none)
    running,    \* each Worker's self.running
    stop_event, \* each Worker's self._stop_event
    workers,    \* WorkerManager.workers: the ids registered
    lock,       \* WorkerManager._lock is held
    main,       \* the main thread: the frame it executes and the one a signal interrupted
    execs       \* per job: executions of its command begun since creation or the last requeue

\* the worker lifecycle (Worker.start / stop, WorkerManager); only the
\* specifications of the manager move it, the others start a worker directly
life == <<running, stop_event, workers, lock, main>>

vars == <<jobs, pc, cur, now, cli, running, stop_event, workers, lock, main, execs>>

NoJob == [id |-> 0]

\* ---- pure helpers ----

RECURSIVE Pow(_, _)
Pow(b, e) == IF e <= 0 THEN 1 ELSE b * Pow(b, e - 1)

RECURSIVE LStrip(_)
LStrip(s) == IF s # <<>> /\ Head(s) \in Whitespace THEN LStrip(Tail(s)) ELSE s

RECURSIVE RStrip(_)
RStrip(s) ==
    IF s # <<>> /\ s[Len(s)] \in Whitespace THEN RStrip(SubSeq(s, 1, Len(s) - 1)) ELSE s

\* a strip that trims the left end only
Strip_LeftOnly(s) == LStrip(s)

\* str.strip()
Strip(s) == RStrip(LStrip(s))

\* Worker.calculate_next_retry: now + base_delay ** attempts seconds
calculate_next_retry(attempts) == now + Pow(BaseDelay, attempts)

\* Worker.execute_command: (exit code, stdout, stderr) of the command under the timeout
execute_command(command, timeout) ==
    CASE command = "echo ' h'"      -> [code |-> 0, stdout |-> <<" ", "h", "\n">>, stderr |-> ""]
      [] command = "exit 1"         -> [code |-> 1, stdout |-> <<>>, stderr |-> ""]
      [] command = "sleep 5"        ->
            IF timeout # NoneT /\ timeout < 5
            THEN [code |-> -1, stdout |-> <<>>, stderr |-> "Job timed out"]
            ELSE [code |-> 0, stdout |-> <<>>, stderr |-> ""]

\* `stderr or "Unknown error"`
OrUnknown(stderr) == IF stderr = "" THEN "Unknown error" ELSE stderr

\* Job(...) with the model's defaults (src/models/job.py)
Job(id, command, max_retries, run_at, priority, timeout) ==
    [id |-> id, command |-> command, state |-> "pending", attempts |-> 0,
     max_retries |-> max_retries, created_at |-> now, next_retry_at |-> NoneT,
     last_error |-> NoneS, run_at |-> run_at, priority |-> priority,
     output |-> NoneO, timeout |-> timeout]

\* Storage.update_job: patch the record if it exists
update_job(tbl, id, updates) ==
    IF id \in DOMAIN tbl
    THEN [tbl EXCEPT ![id] =
            [f \in DOMAIN tbl[id] |-> IF f \in DOMAIN updates THEN updates[f] ELSE tbl[id][f]]]
    ELSE tbl

\* the query without its run_at filter
Eligible_NoRunAt == {j \in DOMAIN jobs : jobs[j].state = "pending"}

\* the rows get_next_pending_job's two filters keep
Eligible == {j \in DOMAIN jobs :
                /\ jobs[j].state = "pending"
                /\ (jobs[j].run_at = NoneT \/ jobs[j].run_at <= now)}

\* the ordering with priority ascending
FirstInOrder_PriorityAsc(S) == {j \in S : \A k \in S :
                        \/ jobs[j].priority < jobs[k].priority
                        \/ /\ jobs[j].priority = jobs[k].priority
                           /\ jobs[j].created_at <= jobs[k].created_at}

\* rows that sort first under ORDER BY priority DESC, created_at ASC
FirstInOrder(S) == {j \in S : \A k \in S :
                        \/ jobs[j].priority > jobs[k].priority
                        \/ /\ jobs[j].priority = jobs[k].priority
                           /\ jobs[j].created_at <= jobs[k].created_at}

\* ---- initial state ----
Init ==
    /\ jobs = << >>
    /\ pc = [w \in Workers |-> "off"]
    /\ cur = [w \in Workers |-> NoJob]
    /\ now = 0
    /\ cli = 0
    /\ running = [w \in Workers |-> FALSE]
    /\ stop_event = [w \in Workers |-> FALSE]
    /\ workers = {}
    /\ lock = FALSE
    /\ main = [pc |-> "cmd", count |-> 0, todo |-> {}, saved |-> "none"]
    /\ execs = [j \in JobIds |-> 0]

\* ---- actions ----

\* the clock advances; it runs on past MaxTime while a retry time is still ahead
Tick ==
    /\ now < MaxTime \/ \E j \in DOMAIN jobs : jobs[j].next_retry_at > now
    /\ now' = now + 1
    /\ UNCHANGED <<jobs, pc, cur, cli>>
    /\ UNCHANGED <<life, execs>>

\* cli enqueue: Job(**job_data); storage.add_job(job.dict())
Enqueue(id, command, max_retries, run_at, priority, timeout) ==
    /\ id \in JobIds \ DOMAIN jobs
    /\ jobs' = jobs @@ (id :> Job(id, command, max_retries, run_at, priority, timeout))
    /\ UNCHANGED <<pc, cur, now, cli>>
    /\ UNCHANGED <<life, execs>>

\* Worker.start: the worker thread enters run()
WorkerStart(w) ==
    /\ pc[w] = "off"
    /\ pc' = [pc EXCEPT ![w] = "idle"]
    /\ UNCHANGED <<jobs, cur, now, cli>>
    /\ UNCHANGED <<life, execs>>

\* Worker.run: job = self.storage.get_next_pending_job(), called by a worker
\* at position `at` of its loop
GetNextAt(w, at) ==
    /\ pc[w] = at
    /\ IF Eligible = {}
       THEN /\ pc' = [pc EXCEPT ![w] = "sleep"]
            /\ cur' = [cur EXCEPT ![w] = NoJob]
       ELSE \E j \in FirstInOrder(Eligible) :
            /\ pc' = [pc EXCEPT ![w] = "got"]
            /\ cur' = [cur EXCEPT ![w] = jobs[j]]
    /\ UNCHANGED <<jobs, now, cli>>
    /\ UNCHANGED <<life, execs>>

\* Worker.run: the query of an iteration
GetNext(w) == GetNextAt(w, "idle")

\* Worker.run: time.sleep(1) when no job was available, then loop
Wake(w) ==
    /\ pc[w] = "sleep"
    /\ pc' = [pc EXCEPT ![w] = "idle"]
    /\ UNCHANGED <<jobs, cur, now, cli>>
    /\ UNCHANGED <<life, execs>>

\* process_job, first update: state processing, attempts job.attempts + 1
Claim(w) ==
    /\ pc[w] = "got"
    /\ jobs' = update_job(jobs, cur[w].id,
                  [state |-> "processing", attempts |-> cur[w].attempts + 1])
    /\ pc' = [pc EXCEPT ![w] = "exec"]
    /\ execs' = [execs EXCEPT ![cur[w].id] = @ + 1]
    /\ UNCHANGED <<cur, now, cli>>
    /\ UNCHANGED life

\* the outcome without the local `job.attempts += 1`
Outcome_StaleAttempts(job, r) ==
    IF r.code = 0
    THEN [state |-> "completed", output |-> Strip(r.stdout)]
    ELSE IF job.attempts >= job.max_retries
         THEN [state |-> "dead", last_error |-> OrUnknown(r.stderr), output |-> r.stdout]
         ELSE [state |-> "failed", attempts |-> job.attempts,
               last_error |-> OrUnknown(r.stderr),
               next_retry_at |-> calculate_next_retry(job.attempts),
               output |-> r.stdout]

\* the patch process_job writes after the command has run
Outcome(job, r) ==
    IF r.code = 0
    THEN [state |-> "completed", output |-> Strip(r.stdout)]
    ELSE IF job.attempts + 1 >= job.max_retries
         THEN [state |-> "dead", last_error |-> OrUnknown(r.stderr), output |-> r.stdout]
         ELSE [state |-> "failed", attempts |-> job.attempts + 1,
               last_error |-> OrUnknown(r.stderr),
               next_retry_at |-> calculate_next_retry(job.attempts + 1),
               output |-> r.stdout]

\* a worker whose loop ends when the command of its job fails
Finish_StopOnFailure(w) ==
    /\ pc[w] = "exec"
    /\ jobs' = update_job(jobs, cur[w].id,
                  Outcome(cur[w], execute_command(cur[w].command, cur[w].timeout)))
    /\ pc' = [pc EXCEPT ![w] =
                 IF execute_command(cur[w].command, cur[w].timeout).code = 0
                 THEN "idle" ELSE "done"]
    /\ cur' = [cur EXCEPT ![w] = NoJob]
    /\ UNCHANGED <<now, cli>>
    /\ UNCHANGED <<life, execs>>

\* process_job, execute_command and the outcome update
Finish(w) ==
    /\ pc[w] = "exec"
    /\ jobs' = update_job(jobs, cur[w].id,
                  Outcome(cur[w], execute_command(cur[w].command, cur[w].timeout)))
    /\ pc' = [pc EXCEPT ![w] = "idle"]
    /\ cur' = [cur EXCEPT ![w] = NoJob]
    /\ UNCHANGED <<now, cli>>
    /\ UNCHANGED <<life, execs>>

\* process_job, except branch: an update_job of the try block raised; the
\* handler writes failed with the exception text
ProcessError(w) ==
    /\ pc[w] \in {"got", "exec"}
    /\ jobs' = update_job(jobs, cur[w].id, [state |-> "failed", last_error |-> "db error"])
    /\ pc' = [pc EXCEPT ![w] = "idle"]
    /\ cur' = [cur EXCEPT ![w] = NoJob]
    /\ UNCHANGED <<now, cli>>
    /\ UNCHANGED <<life, execs>>

\* Worker.execute_command, outer except: subprocess.Popen raised (the shell
\* could not be spawned); the method returns (-1, "", str(e))
SpawnFailure == [code |-> -1, stdout |-> <<>>, stderr |-> "OSError"]

\* process_job when execute_command could not spawn the command: the returned
\* triple goes through the same outcome update as any other exit code
SpawnError(w) ==
    /\ pc[w] = "exec"
    /\ jobs' = update_job(jobs, cur[w].id, Outcome(cur[w], SpawnFailure))
    /\ pc' = [pc EXCEPT ![w] = "idle"]
    /\ cur' = [cur EXCEPT ![w] = NoJob]
    /\ UNCHANGED <<now, cli>>
    /\ UNCHANGED <<life, execs>>

\* dlq retry: job = storage.get_job(job_id), found and dead
RequeueRead(id) ==
    /\ cli = 0
    /\ id \in DOMAIN jobs
    /\ jobs[id].state = "dead"
    /\ cli' = id
    /\ UNCHANGED <<jobs, pc, cur, now>>
    /\ UNCHANGED <<life, execs>>

\* dlq retry: get_job finds no row, or a row that is not dead: the command
\* prints a message and returns without an update
RequeueRefuse(id) ==
    /\ cli = 0
    /\ IF id \in DOMAIN jobs THEN jobs[id].state # "dead" ELSE TRUE
    /\ UNCHANGED <<jobs, pc, cur, now, cli>>
    /\ UNCHANGED <<life, execs>>

\* a requeue that forgets to reset attempts
RequeueWrite_KeepAttempts ==
    /\ cli # 0
    /\ jobs' = update_job(jobs, cli, [state |-> "pending", last_error |-> NoneS])
    /\ execs' = [execs EXCEPT ![cli] = 0]
    /\ cli' = 0
    /\ UNCHANGED <<pc, cur, now>>
    /\ UNCHANGED life

\* dlq retry: storage.update_job(job_id, {state pending, attempts 0, last_error None})
RequeueWrite ==
    /\ cli # 0
    /\ jobs' = update_job(jobs, cli, [state |-> "pending", attempts |-> 0, last_error |-> NoneS])
    /\ execs' = [execs EXCEPT ![cli] = 0]
    /\ cli' = 0
    /\ UNCHANGED <<pc, cur, now>>
    /\ UNCHANGED life

\* the hosting process dies: its (daemon) worker threads and their locals go with it
Crash ==
    /\ \E w \in Workers : pc[w] # "off"
    /\ pc' = [w \in Workers |-> "off"]
    /\ cur' = [w \in Workers |-> NoJob]
    /\ UNCHANGED <<jobs, now, cli>>
    /\ UNCHANGED <<life, execs>>

\* the state cleanup_stale_jobs gives a processing row
StaleState(job) == IF job.attempts >= job.max_retries THEN "dead" ELSE "failed"

\* a reaper that also zeroes the attempts of the rows it resets
cleanup_stale_jobs_ResetAttempts ==
    /\ \A w \in Workers : pc[w] = "off"
    /\ jobs' = [j \in DOMAIN jobs |->
                  IF jobs[j].state = "processing"
                  THEN [jobs[j] EXCEPT !.state = StaleState(jobs[j]), !.attempts = 0]
                  ELSE jobs[j]]
    /\ UNCHANGED <<pc, cur, now, cli>>
    /\ UNCHANGED <<life, execs>>

\* Storage.cleanup_stale_jobs.  The repository holds no call of it; it is run
\* here where its docstring and the design place it: at startup, while no
\* worker thread exists.
cleanup_stale_jobs ==
    /\ \A w \in Workers : pc[w] = "off"
    /\ jobs' = [j \in DOMAIN jobs |->
                  IF jobs[j].state = "processing"
                  THEN [jobs[j] EXCEPT !.state = StaleState(jobs[j])]
                  ELSE jobs[j]]
    /\ UNCHANGED <<pc, cur, now, cli>>
    /\ UNCHANGED <<life, execs>>

\* ---- the worker lifecycle: Worker.start / run / stop and WorkerManager ----

\* Worker.start, in the worker's thread: self.running = True
StartRunning(w) ==
    /\ pc[w] = "new"
    /\ running' = [running EXCEPT ![w] = TRUE]
    /\ pc' = [pc EXCEPT ![w] = "clr"]
    /\ UNCHANGED <<jobs, cur, now, cli, stop_event, workers, lock, main, execs>>

\* Worker.start: self._stop_event.clear(), then run()
StartClear(w) ==
    /\ pc[w] = "clr"
    /\ stop_event' = [stop_event EXCEPT ![w] = FALSE]
    /\ pc' = [pc EXCEPT ![w] = "top"]
    /\ UNCHANGED <<jobs, cur, now, cli, running, workers, lock, main, execs>>

\* Worker.run, entering the loop: `while self.running` holds, first query
FirstPoll(w) == running[w] /\ GetNextAt(w, "top")

\* Worker.run, entering the loop: `while self.running` fails, the thread ends
FirstExit(w) ==
    /\ pc[w] = "top"
    /\ ~running[w]
    /\ pc' = [pc EXCEPT ![w] = "done"]
    /\ UNCHANGED <<jobs, cur, now, cli, life, execs>>

\* Worker.run after an iteration: the stop event is not set and
\* `while self.running` holds, next query
Poll(w) == ~stop_event[w] /\ running[w] /\ GetNext(w)

\* a worker that tests the stop event while it holds a job
LoopExit_MidJob(w) ==
    /\ pc[w] \in {"idle", "exec"}
    /\ stop_event[w] \/ ~running[w]
    /\ pc' = [pc EXCEPT ![w] = "done"]
    /\ UNCHANGED <<jobs, cur, now, cli, life, execs>>

\* Worker.run after an iteration: `if self._stop_event.is_set(): break`, or
\* `while self.running` fails; the thread ends
LoopExit(w) ==
    /\ pc[w] = "idle"
    /\ stop_event[w] \/ ~running[w]
    /\ pc' = [pc EXCEPT ![w] = "done"]
    /\ UNCHANGED <<jobs, cur, now, cli, life, execs>>

\* one step of a worker thread the manager created
ThreadStep(w) ==
    \/ StartRunning(w)
    \/ StartClear(w)
    \/ FirstPoll(w)
    \/ FirstExit(w)
    \/ Poll(w)
    \/ Wake(w)
    \/ Claim(w)
    \/ Finish(w)
    \/ LoopExit(w)

get_active_workers_count == Cardinality(workers)

\* the main thread calls start_workers(count)
CallStart(count) ==
    /\ main.pc = "cmd"
    /\ get_active_workers_count + count <= NumWorkers
    /\ main' = [main EXCEPT !.pc = "start_acquire", !.count = count]
    /\ UNCHANGED <<jobs, pc, cur, now, cli, running, stop_event, workers, lock, execs>>

\* start_workers: `with self._lock` is entered
StartAcquire ==
    /\ main.pc = "start_acquire"
    /\ ~lock
    /\ lock' = TRUE
    /\ main' = [main EXCEPT !.pc = "start_loop"]
    /\ UNCHANGED <<jobs, pc, cur, now, cli, running, stop_event, workers, execs>>

\* start_workers, one pass of the for loop: worker_id = len(self.workers) + 1,
\* Worker(worker_id, ...), register it, thread.start()
StartOne ==
    /\ main.pc = "start_loop"
    /\ main.count > 0
    /\ LET worker_id == get_active_workers_count + 1
       IN /\ workers' = workers \cup {worker_id}
          /\ running' = [running EXCEPT ![worker_id] = FALSE]
          /\ stop_event' = [stop_event EXCEPT ![worker_id] = FALSE]
          /\ pc' = [pc EXCEPT ![worker_id] = "new"]
          /\ cur' = [cur EXCEPT ![worker_id] = NoJob]
    /\ main' = [main EXCEPT !.count = @ - 1]
    /\ UNCHANGED <<jobs, now, cli, lock, execs>>

\* start_workers: the for loop is over, the lock is released, the call returns
StartRelease ==
    /\ main.pc = "start_loop"
    /\ main.count = 0
    /\ lock' = FALSE
    /\ main' = [main EXCEPT !.pc = "cmd"]
    /\ UNCHANGED <<jobs, pc, cur, now, cli, running, stop_event, workers, execs>>

\* the main thread calls stop_workers()
CallStop ==
    /\ main.pc = "cmd"
    /\ main' = [main EXCEPT !.pc = "stop_acquire"]
    /\ UNCHANGED <<jobs, pc, cur, now, cli, running, stop_event, workers, lock, execs>>

\* stop_workers: `with self._lock` is entered; the first for loop starts
StopAcquire ==
    /\ main.pc = "stop_acquire"
    /\ ~lock
    /\ lock' = TRUE
    /\ main' = [main EXCEPT !.pc = IF workers = {} THEN "stop_join" ELSE "stop_signal",
                            !.todo = workers]
    /\ UNCHANGED <<jobs, pc, cur, now, cli, running, stop_event, workers, execs>>

\* the next worker of self.workers.values(): a dict iterates in insertion order
NextWorker(S) == CHOOSE w \in S : \A v \in S : w <= v

\* stop_workers, worker.stop(): self.running = False
StopRunning ==
    /\ main.pc = "stop_signal"
    /\ running' = [running EXCEPT ![NextWorker(main.todo)] = FALSE]
    /\ main' = [main EXCEPT !.pc = "stop_set"]
    /\ UNCHANGED <<jobs, pc, cur, now, cli, stop_event, workers, lock, execs>>

\* stop_workers, worker.stop(): self._stop_event.set()
StopSet ==
    /\ main.pc = "stop_set"
    /\ stop_event' = [stop_event EXCEPT ![NextWorker(main.todo)] = TRUE]
    /\ LET rest == main.todo \ {NextWorker(main.todo)}
       IN main' = [main EXCEPT !.pc = IF rest = {} THEN "stop_join" ELSE "stop_signal",
                               !.todo = rest]
    /\ UNCHANGED <<jobs, pc, cur, now, cli, running, workers, lock, execs>>

\* stop_workers: every thread.join() has returned, self.workers.clear(), the
\* lock is released and the call returns: to its caller, or into
\* handle_shutdown
StopJoin ==
    /\ main.pc = "stop_join"
    /\ \A w \in workers : pc[w] = "done"
    /\ workers' = {}
    /\ lock' = FALSE
    /\ main' = [main EXCEPT !.pc = IF main.saved = "none" THEN "cmd" ELSE "os_exit"]
    /\ UNCHANGED <<jobs, pc, cur, now, cli, running, stop_event, execs>>

\* SIGINT / SIGTERM: the main thread leaves the frame it executes and runs
\* handle_shutdown, which calls stop_workers
Signal ==
    /\ main.saved = "none"
    /\ main.pc # "exited"
    /\ main' = [main EXCEPT !.pc = "stop_acquire", !.saved = main.pc]
    /\ UNCHANGED <<jobs, pc, cur, now, cli, running, stop_event, workers, lock, execs>>

\* handle_shutdown: os._exit(0), the process and its daemon threads are gone
OsExit ==
    /\ main.pc = "os_exit"
    /\ main' = [main EXCEPT !.pc = "exited"]
    /\ pc' = [w \in Workers |-> "off"]
    /\ cur' = [w \in Workers |-> NoJob]
    /\ UNCHANGED <<jobs, now, cli, running, stop_event, workers, lock, execs>>

\* a step of start_workers or stop_workers
ManagerStep ==
    \/ StartAcquire
    \/ StartOne
    \/ StartRelease
    \/ StopAcquire
    \/ StopRunning
    \/ StopSet
    \/ StopJoin

\* A timeout is given with the long-running command only: the other commands
\* end well inside any timeout.
TimeoutFor(command) == IF command = "sleep 5" THEN 1 ELSE NoneT

NextId == Cardinality(DOMAIN jobs) + 1

\* enqueue with max_retries only: run_at unset, priority at its default
EnqueuePlain ==
    \E c \in Commands, m \in 1..MaxRetriesBound :
        Enqueue(NextId, c, m, NoneT, DefaultPriority, TimeoutFor(c))

\* enqueue of scheduled and prioritised jobs (max_retries 1)
EnqueueScheduled ==
    \E c \in {"echo ' h'", "exit 1"}, r \in {NoneT, 1}, p \in Priorities :
        Enqueue(NextId, c, 1, r, p, TimeoutFor(c))

WorkerStep(w) ==
    \/ WorkerStart(w)
    \/ GetNext(w)
    \/ Wake(w)
    \/ Claim(w)
    \/ Finish(w)

Requeue ==
    \/ \E id \in JobIds : RequeueRead(id)
    \/ RequeueWrite

\* The whole system: several workers, the dlq retry command, crash and restart.
Next ==
    \/ Tick
    \/ EnqueuePlain
    \/ \E w \in Workers : WorkerStep(w)
    \/ Requeue
    \/ \E id \in JobIds : RequeueRefuse(id)
    \/ Crash
    \/ cleanup_stale_jobs

Spec == Init /\ [][Next]_vars

\* Scheduling: jobs with run_at and priority, one worker thread, the dlq
\* retry command, and crashes that leave rows in processing.
NextSched ==
    \/ Tick
    \/ EnqueueScheduled
    \/ WorkerStep(1)
    \/ Requeue
    \/ Crash

SpecSched == Init /\ [][NextSched]_vars

\* One worker thread, the process never killed.
NextSolo ==
    \/ Tick
    \/ EnqueuePlain
    \/ WorkerStep(1)
    \/ Requeue

SpecSolo == Init /\ [][NextSolo]_vars

\* The whole system with a store whose updates may raise.
NextFault ==
    \/ Next
    \/ \E w \in Workers : ProcessError(w)

SpecFault == Init /\ [][NextFault]_vars

\* One worker whose executions may meet unexpected errors: the command cannot
\* be spawned, or the store raises inside process_job.
NextExec ==
    \/ Tick
    \/ EnqueuePlain
    \/ WorkerStep(1)
    \/ SpawnError(1)
    \/ ProcessError(1)

SpecExec == Init /\ [][NextExec]_vars

\* One worker thread that keeps running (its loop never blocks) while the
\* clock advances; nobody requeues.
NextRetry ==
    \/ Tick
    \/ EnqueuePlain
    \/ WorkerStep(1)

SpecRetry == Init /\ [][NextRetry]_vars /\ WF_vars(Tick) /\ WF_vars(WorkerStep(1))

\* The process as the repository starts it: Storage.__init__ creates the
\* tables and the session factory, start_workers creates the threads, and
\* nothing calls cleanup_stale_jobs.  The process may die at any point and be
\* started again; the worker thread of a live process keeps running.
NextRestart ==
    \/ Tick
    \/ EnqueuePlain
    \/ WorkerStep(1)
    \/ Crash

SpecRestart == Init /\ [][NextRestart]_vars /\ WF_vars(Tick) /\ WF_vars(WorkerStep(1))

\* A process that uses its WorkerManager: clients enqueue, the main thread
\* calls start_workers and stop_workers in any order, the worker threads run,
\* and one termination signal may arrive at any point.
NextManager ==
    \/ EnqueuePlain
    \/ \E count \in 1..NumWorkers : CallStart(count)
    \/ CallStop
    \/ ManagerStep
    \/ \E w \in Workers : ThreadStep(w)
    \/ Signal
    \/ OsExit

SpecManager == Init /\ [][NextManager]_vars

\* The same process without signals; every thread that can take a step
\* eventually takes one, and every running command terminates.
NextStop ==
    \/ EnqueuePlain
    \/ \E count \in 1..NumWorkers : CallStart(count)
    \/ CallStop
    \/ ManagerStep
    \/ \E w \in Workers : ThreadStep(w)

SpecStop ==
    /\ Init /\ [][NextStop]_vars
    /\ WF_vars(ManagerStep)
    /\ \A w \in Workers : WF_vars(ThreadStep(w))

TypeOK ==
    /\ DOMAIN jobs \subseteq JobIds
    /\ \A j \in DOMAIN jobs : jobs[j].state \in JobState /\ jobs[j].id = j
    /\ pc \in [Workers -> {"off", "new", "clr", "top", "idle", "sleep", "got", "exec", "done"}]
    /\ running \in [Workers -> BOOLEAN] /\ stop_event \in [Workers -> BOOLEAN]
    /\ workers \subseteq Workers /\ lock \in BOOLEAN
    /\ main.count \in 0..NumWorkers /\ main.todo \subseteq workers
    /\ execs \in [JobIds -> 0..NumWorkers]
    /\ now \in Nat
    /\ cli \in {0} \cup JobIds

\* ---- properties ----

\* what running the job's command yields
Result(job) == execute_command(job.command, job.timeout)

\* worker w returns from process_job in this step
Finishes(w) == pc[w] = "exec" /\ pc'[w] = "idle"

\* worker w's get_next_pending_job returns in this step
Queries(w) == pc[w] = "idle" /\ pc'[w] \in {"got", "sleep"}

\* C1: no job is claimed twice: two workers never hold the same job after
\* each has moved it to processing.
C1_NoDoubleClaim ==
    \A w1, w2 \in Workers :
        (w1 # w2 /\ pc[w1] = "exec" /\ pc[w2] = "exec") => cur[w1].id # cur[w2].id

\* C2: a failed job whose next_retry_at has elapsed eventually re-enters
\* pending while a worker keeps running.
C2_FailedReentersPending ==
    \A j \in JobIds :
        (IF j \in DOMAIN jobs
         THEN /\ jobs[j].state = "failed"
              /\ jobs[j].next_retry_at # NoneT
              /\ jobs[j].next_retry_at <= now
         ELSE FALSE)
        ~> (IF j \in DOMAIN jobs THEN jobs[j].state = "pending" ELSE FALSE)

\* C3: a job with max_retries = N >= 1 whose command fails on every
\* execution ends dead with attempts = N.
C3_FailingJobEndsDead ==
    \A j \in JobIds :
        (IF j \in DOMAIN jobs
         THEN Result(jobs[j]).code # 0 /\ jobs[j].max_retries >= 1
         ELSE FALSE)
        ~> (IF j \in DOMAIN jobs
            THEN jobs[j].state = "dead" /\ jobs[j].attempts = jobs[j].max_retries
            ELSE FALSE)

IsTrimOf(o, s) ==
    /\ o = <<>> \/ (o[1] \notin Whitespace /\ o[Len(o)] \notin Whitespace)
    /\ \E a \in 0..Len(s) :
          /\ a + Len(o) <= Len(s)
          /\ \A i \in 1..Len(o) : s[a + i] = o[i]
          /\ \A i \in 1..Len(s) : (i <= a \/ i > a + Len(o)) => s[i] \in Whitespace

C6_DeadAtCeiling ==
    \A j \in DOMAIN jobs :
        jobs[j].state = "dead" => jobs[j].attempts >= jobs[j].max_retries

\* C7: a job whose next_retry_at is set is in state failed.
C7_RetryTimeOnlyWhenFailed ==
    \A j \in DOMAIN jobs :
        jobs[j].next_retry_at # NoneT => jobs[j].state = "failed"

\* C8: completed is terminal: no step changes the state, attempts or output
\* of a completed job.
C8_CompletedTerminal ==
    [][\A j \in DOMAIN jobs :
        jobs[j].state = "completed" =>
            /\ jobs'[j].state = "completed"
            /\ jobs'[j].attempts = jobs[j].attempts
            /\ jobs'[j].output = jobs[j].output]_vars

\* C9: get_next_pending_job returns a job only if that job is pending with
\* run_at unset or run_at <= now, and returns none exactly when there is no
\* such job.
C9_OnlyEligible ==
    [][\A w \in Workers :
        Queries(w) =>
            LET due == {j \in DOMAIN jobs :
                          /\ jobs[j].state = "pending"
                          /\ ~(jobs[j].run_at # NoneT /\ jobs[j].run_at > now)}
            IN /\ pc'[w] = "got" => (cur'[w].id \in due /\ cur'[w] = jobs[cur'[w].id])
               /\ pc'[w] = "sleep" <=> due = {}]_vars

C9_Witness ==
    \E w \in Workers, j \in DOMAIN jobs, k \in DOMAIN jobs :
        /\ pc[w] = "got" /\ cur[w].id = j /\ jobs[j].state = "pending"
        /\ jobs[j].run_at = NoneT
        /\ jobs[k].state = "pending" /\ jobs[k].run_at > now
        /\ jobs[k].priority > jobs[j].priority

\* C10: the job get_next_pending_job returns has the highest priority among
\* the eligible pending jobs and, among those of that priority, the earliest
\* created_at.
C10_PriorityThenAge ==
    [][\A w \in Workers :
        (Queries(w) /\ pc'[w] = "got") =>
            \A k \in DOMAIN jobs :
                (/\ jobs[k].state = "pending"
                 /\ (jobs[k].run_at = NoneT \/ jobs[k].run_at <= now)) =>
                    /\ jobs[k].priority <= cur'[w].priority
                    /\ jobs[k].priority = cur'[w].priority =>
                          cur'[w].created_at <= jobs[k].created_at]_vars

C10_Witness ==
    \E w \in Workers, k \in DOMAIN jobs :
        /\ pc[w] = "got" /\ cur[w].id # k
        /\ jobs[cur[w].id].state = "pending" /\ jobs[k].state = "pending"
        /\ jobs[k].run_at = NoneT
        /\ cur[w].priority > jobs[k].priority
        /\ cur[w].created_at > jobs[k].created_at

\* the dlq retry command performs its update in this step
RequeueWrites == cli # 0 /\ cli' = 0

\* C11: requeuing a dead job leaves it pending with attempts 0 and last_error
\* cleared, keeps its id, command, max_retries and priority, and the job is
\* then eligible for get_next_pending_job.
C11_RequeueResets ==
    [][(RequeueWrites /\ jobs[cli].state = "dead") =>
        LET old == jobs[cli]
            new == jobs'[cli]
        IN /\ new.state = "pending"
           /\ new.attempts = 0
           /\ new.last_error = NoneS
           /\ new.id = old.id /\ new.command = old.command
           /\ new.max_retries = old.max_retries /\ new.priority = old.priority
           /\ new.run_at = NoneT \/ new.run_at <= now']_vars

C11_Witness ==
    \E j \in DOMAIN jobs :
        /\ jobs[j].state = "pending" /\ jobs[j].attempts = 0
        /\ jobs[j].last_error = NoneS /\ jobs[j].output = <<>>
        /\ jobs[j].run_at = 1

\* C12: a requeue never changes a job that is not dead (nor any other
\* record), also while workers run: no job that has left the dead state is
\* written by the dlq retry command.
C12_NonDeadRequeueRefused ==
    [][(RequeueWrites /\ jobs[cli].state # "dead") => jobs' = jobs]_vars

\* cleanup_stale_jobs commits a change in this step: no worker thread exists,
\* and the step is neither an enqueue, a dlq retry update nor a clock tick
Reaps ==
    /\ \A w \in Workers : pc[w] = "off"
    /\ DOMAIN jobs' = DOMAIN jobs
    /\ cli' = cli /\ now' = now
    /\ jobs' # jobs

\* C13: cleanup_stale_jobs turns every processing job into dead if its
\* attempts >= max_retries and otherwise into failed with a next_retry_at set,
\* and leaves every job that is not processing unchanged.
C13_ReapStale ==
    [][Reaps =>
        \A j \in DOMAIN jobs :
            IF jobs[j].state = "processing"
            THEN IF jobs[j].attempts >= jobs[j].max_retries
                 THEN jobs'[j].state = "dead"
                 ELSE /\ jobs'[j].state = "failed"
                      /\ jobs'[j].next_retry_at # NoneT
            ELSE jobs'[j] = jobs[j]]_vars

\* C14: a job left in processing by a process that died (no worker thread
\* exists any more) does not stay in processing forever once the process is
\* started again and its worker runs (the restarted process stays up).
C14_OrphanLeavesProcessing ==
    <>[](pc[1] # "off") =>
    \A j \in JobIds :
        (IF j \in DOMAIN jobs
         THEN jobs[j].state = "processing" /\ \A w \in Workers : pc[w] = "off"
         ELSE FALSE)
        ~> (IF j \in DOMAIN jobs THEN jobs[j].state # "processing" ELSE FALSE)

\* C19: in every reachable state a job's stored attempts equals the number of
\* executions of its command begun since it was created or last requeued.
C19_AttemptsCountExecutions ==
    \A j \in DOMAIN jobs : jobs[j].attempts = execs[j]

\* C15: every call of stop_workers returns, with the active set empty
\* (get_active_workers_count = 0), when every thread keeps taking steps and
\* every command terminates.
C15_StopTerminates ==
    (main.pc = "stop_acquire") ~> (main.pc = "cmd" /\ get_active_workers_count = 0)

\* a worker thread ends in this step
Exits(w) == pc[w] # "done" /\ pc'[w] = "done"

\* stop_workers returns in this step
StopReturns == main.pc = "stop_join" /\ main'.pc \in {"cmd", "os_exit"}

\* C16: a worker thread ends only between jobs, never while it holds a job it
\* selected or moved to processing, and when stop_workers returns no job is
\* in state processing.
C16_NoRecordAbandoned ==
    [][/\ \A w \in Workers : Exits(w) => pc[w] \in {"top", "idle"} /\ cur[w] = NoJob
       /\ StopReturns => \A j \in DOMAIN jobs : jobs'[j].state # "processing"]_vars

C16_Witness ==
    /\ main.pc = "cmd" /\ workers = {}
    /\ \E w \in Workers : pc[w] = "done" /\ stop_event[w]
    /\ \E j \in DOMAIN jobs : jobs[j].state \in {"completed", "failed", "dead"}

\* C17: a termination signal always gets through the graceful stop: the
\* handler is never waiting for the registry lock while the frame it
\* interrupted holds that lock (nothing could release it).
C17_HandlerNeverSelfBlocked ==
    ~(main.saved # "none" /\ main.pc = "stop_acquire" /\ lock)

\* C18: each worker registered by start_workers gets an id strictly greater
\* than every id assigned before it (an id was assigned once its thread was
\* created).
C18_IdsIncrease ==
    [][\A i \in Workers :
          (i \notin workers /\ i \in workers') =>
              \A k \in Workers : pc[k] # "off" => k < i]_vars

\* worker w performs the claiming update of job j in this step
Claims(w, j) == pc[w] = "got" /\ pc'[w] = "exec" /\ cur[w].id = j

\* C20: a job's stored attempts changes only in a dlq retry update, which
\* sets it to 0, or in a claiming update, which moves the job to processing
\* and does not lower it; outcome updates and the reaper leave it unchanged.
C20_AttemptsOnlyAtClaim ==
    [][\A j \in DOMAIN jobs :
          (j \in DOMAIN jobs' /\ jobs'[j].attempts # jobs[j].attempts) =>
              \/ RequeueWrites /\ cli = j /\ jobs'[j].attempts = 0
              \/ /\ \E w \in Workers : Claims(w, j)
                 /\ jobs'[j].attempts > jobs[j].attempts
                 /\ jobs'[j].state = "processing"]_vars

C20_Witness ==
    \E j \in DOMAIN jobs :
        /\ jobs[j].state = "failed" /\ jobs[j].attempts = 1
        /\ jobs[j].next_retry_at = NoneT /\ jobs[j].last_error = NoneS

\* worker w ends an execution whose command could not be spawned
SpawnFails(w) ==
    /\ pc[w] = "exec" /\ pc'[w] = "idle"
    /\ jobs'[cur[w].id].last_error = SpawnFailure.stderr

\* C21: a command that could not be spawned leaves its job failed whatever
\* max_retries is, never dead.
C21_SpawnErrorFails ==
    [][\A w \in Workers : SpawnFails(w) => jobs'[cur[w].id].state = "failed"]_vars

\* C22: with a worker that keeps running and finitely many enqueues, every
\* eligible pending job is eventually claimed and written completed, failed
\* or dead, also when the jobs processed before it failed.
C22_PendingEventuallyProcessed ==
    \A j \in JobIds :
        (IF j \in DOMAIN jobs THEN j \in Eligible ELSE FALSE)
        ~> (IF j \in DOMAIN jobs
            THEN jobs[j].state \in {"completed", "failed", "dead"}
            ELSE FALSE)

C22_Witness ==
    /\ DOMAIN jobs = {1, 2}
    /\ jobs[1].created_at < jobs[2].created_at
    /\ jobs[1].state \in {"failed", "dead"} /\ jobs[1].command = "exit 1"
    /\ jobs[2].state = "completed"
====
